---- MODULE Spec2Model ----
(***************************************************************************)
(* Project Samarth (n8n connected): the LocalLLM analysis dispatcher and   *)
(* the Streamlit prompt handler of src/project_samarth_live.py.            *)
(*                                                                         *)
(* Python strings are TLA+ strings, handled character by character, so     *)
(* lower(), strip() and the substring test `in` are computed, not assumed. *)
(* JSON values, DataFrame cells and column labels are tagged records.      *)
(* A Python call that may raise returns [kind |-> "ok", val |-> ...] or    *)
(* [kind |-> "raise", exc |-> <class>, err |-> <message>].                 *)
(***************************************************************************)
EXTENDS Integers, Sequences, FiniteSets, TLC

VARIABLES
    tabulate,   \* environment: pandas' optional dependency tabulate is importable
    messages,   \* st.session_state.messages
    run,        \* what the last run of the prompt handler did
    prompts,    \* number of prompts submitted in the session
    call,       \* one call of LocalLLM.generate: arguments, then outcome
    res         \* one call of LocalLLM._find_col: arguments, then outcome

vars == <<tabulate, messages, run, prompts, call, res>>

(***************************************************************************)
(* Bounds of the model.                                                    *)
(***************************************************************************)
MaxCols == 2        \* columns of a frame handed to _find_col
MaxRows == 3        \* records of a fetched dataset
MaxPrompts == 2     \* prompts submitted in one session

(***************************************************************************)
(* Python str operations.                                                  *)
(***************************************************************************)
LowerChar(c) ==
    CASE c = "A" -> "a" [] c = "B" -> "b" [] c = "C" -> "c" [] c = "D" -> "d"
      [] c = "E" -> "e" [] c = "F" -> "f" [] c = "G" -> "g" [] c = "H" -> "h"
      [] c = "I" -> "i" [] c = "J" -> "j" [] c = "K" -> "k" [] c = "L" -> "l"
      [] c = "M" -> "m" [] c = "N" -> "n" [] c = "O" -> "o" [] c = "P" -> "p"
      [] c = "Q" -> "q" [] c = "R" -> "r" [] c = "S" -> "s" [] c = "T" -> "t"
      [] c = "U" -> "u" [] c = "V" -> "v" [] c = "W" -> "w" [] c = "X" -> "x"
      [] c = "Y" -> "y" [] c = "Z" -> "z" [] OTHER -> c

RECURSIVE LowerFrom(_, _)
LowerFrom(s, i) ==
    IF i > Len(s) THEN "" ELSE LowerChar(SubSeq(s, i, i)) \o LowerFrom(s, i + 1)

\* str.lower()
Lower(s) == LowerFrom(s, 1)

IsSpace(c) == c \in {" ", "\t", "\n", "\r"}

RECURSIVE LStrip(_)
LStrip(s) ==
    IF s # "" /\ IsSpace(SubSeq(s, 1, 1)) THEN LStrip(SubSeq(s, 2, Len(s))) ELSE s

RECURSIVE RStrip(_)
RStrip(s) ==
    IF s # "" /\ IsSpace(SubSeq(s, Len(s), Len(s)))
    THEN RStrip(SubSeq(s, 1, Len(s) - 1)) ELSE s

\* str.strip()
Strip(s) == LStrip(RStrip(s))

\* sub in s, for two str
Contains(sub, s) ==
    \E i \in 1..(Len(s) - Len(sub) + 1) : SubSeq(s, i, i + Len(sub) - 1) = sub

RECURSIVE Join(_, _)
\* sep.join(parts)
Join(sep, parts) ==
    IF parts = <<>> THEN ""
    ELSE IF Len(parts) = 1 THEN parts[1]
    ELSE parts[1] \o sep \o Join(sep, Tail(parts))

(***************************************************************************)
(* Outcomes of a Python call.                                              *)
(***************************************************************************)
Ok(v) == [kind |-> "ok", val |-> v]
Raise(exc, msg) == [kind |-> "raise", exc |-> exc, err |-> msg]

(***************************************************************************)
(* JSON values (response.json()), DataFrame cells and column labels.       *)
(* An object keeps its members in order, as a Python dict does.            *)
(***************************************************************************)
JNull == [t |-> "null"]
JNum(n) == [t |-> "num", n |-> n]
JStr(s) == [t |-> "str", s |-> s]
JList(items) == [t |-> "list", items |-> items]
JObj(pairs) == [t |-> "obj", pairs |-> pairs]
NaN == [t |-> "nan"]
None == [t |-> "none"]

Keys(o) == [i \in 1..Len(o.pairs) |-> o.pairs[i][1]]
HasKey(o, k) == \E i \in 1..Len(o.pairs) : o.pairs[i][1] = k
\* o[k] for a dict o holding k (the last member of that name wins)
Get(o, k) ==
    LET i == CHOOSE j \in 1..Len(o.pairs) :
                 /\ o.pairs[j][1] = k
                 /\ \A m \in (j + 1)..Len(o.pairs) : o.pairs[m][1] # k
    IN o.pairs[i][2]
\* o.get(k, default)
GetOr(o, k, default) == IF HasKey(o, k) THEN Get(o, k) ELSE default

RECURSIVE Repr(_)
RECURSIVE ReprItems(_, _)
RECURSIVE ReprPairs(_, _)
\* repr(v), which is what an f-string shows of a list or a dict and their members
Repr(v) ==
    CASE v.t = "null" -> "None"
      [] v.t = "nan"  -> "nan"
      [] v.t = "num"  -> ToString(v.n)
      [] v.t = "str"  -> "'" \o v.s \o "'"
      [] v.t = "list" -> "[" \o ReprItems(v.items, 1) \o "]"
      [] v.t = "obj"  -> "{" \o ReprPairs(v.pairs, 1) \o "}"
ReprItems(items, i) ==
    IF i > Len(items) THEN ""
    ELSE Repr(items[i]) \o (IF i < Len(items) THEN ", " ELSE "")
         \o ReprItems(items, i + 1)
ReprPairs(pairs, i) ==
    IF i > Len(pairs) THEN ""
    ELSE "'" \o pairs[i][1] \o "': " \o Repr(pairs[i][2])
         \o (IF i < Len(pairs) THEN ", " ELSE "") \o ReprPairs(pairs, i + 1)

\* str(v), which is what an f-string shows of v itself
Str(v) == IF v.t = "str" THEN v.s ELSE Repr(v)

TypeName(v) ==
    CASE v.t = "null" -> "NoneType" [] v.t = "num" -> "int" [] v.t = "str" -> "str"
      [] v.t = "list" -> "list" [] v.t = "obj" -> "dict" [] OTHER -> "float"

\* k in v, for a str k: dict membership, list membership, substring, or TypeError
PyIn(k, v) ==
    CASE v.t = "obj"  -> Ok(HasKey(v, k))
      [] v.t = "list" -> Ok(\E i \in 1..Len(v.items) :
                              v.items[i].t = "str" /\ v.items[i].s = k)
      [] v.t = "str"  -> Ok(Contains(k, v.s))
      [] OTHER -> Raise("TypeError",
                        "argument of type '" \o TypeName(v) \o "' is not iterable")

\* v[k], for a str k
PyIndex(v, k) ==
    CASE v.t = "obj" ->
            IF HasKey(v, k) THEN Ok(Get(v, k)) ELSE Raise("KeyError", "'" \o k \o "'")
      [] v.t = "list" -> Raise("TypeError",
                               "list indices must be integers or slices, not str")
      [] v.t = "str" -> Raise("TypeError", "string indices must be integers")
      [] OTHER -> Raise("TypeError",
                        "'" \o TypeName(v) \o "' object is not subscriptable")

(***************************************************************************)
(* pandas.DataFrame: column labels in order and rows of cells aligned with *)
(* them.  A label is a str, or an int when the records are not mappings.   *)
(***************************************************************************)
Frame(columns, rows) == [columns |-> columns, rows |-> rows]

RECURSIVE AddNew(_, _)
AddNew(seq, more) ==
    IF more = <<>> THEN seq
    ELSE AddNew(IF \E i \in 1..Len(seq) : seq[i] = Head(more)
                THEN seq ELSE Append(seq, Head(more)), Tail(more))

RECURSIVE RecordKeys(_, _)
\* the keys of the records, in order of first appearance
RecordKeys(items, i) ==
    IF i > Len(items) THEN <<>>
    ELSE AddNew(Keys(items[i]), RecordKeys(items, i + 1))

AllOf(items, kinds) == \A i \in 1..Len(items) : items[i].t \in kinds

\* pd.DataFrame(records)
DataFrame(records) ==
    CASE records.t = "null" -> Ok(Frame(<<>>, <<>>))
      [] records.t = "list" /\ records.items = <<>> -> Ok(Frame(<<>>, <<>>))
      [] records.t = "list" /\ AllOf(records.items, {"obj"}) ->
            LET keys == AddNew(<<>>, RecordKeys(records.items, 1))
            IN Ok(Frame([j \in 1..Len(keys) |-> JStr(keys[j])],
                        [i \in 1..Len(records.items) |->
                            [j \in 1..Len(keys) |->
                                GetOr(records.items[i], keys[j], NaN)]]))
      [] records.t = "list" /\ AllOf(records.items, {"null", "num", "str"}) ->
            Ok(Frame(<<JNum(0)>>,
                     [i \in 1..Len(records.items) |-> <<records.items[i]>>]))
      [] records.t = "obj" ->
            Raise("ValueError", "If using all scalar values, you must pass an index")
      [] OTHER -> Raise("ValueError", "DataFrame constructor not properly called!")

ColumnIndex(df, label) == CHOOSE j \in 1..Len(df.columns) : df.columns[j] = label
HasColumn(df, label) == \E j \in 1..Len(df.columns) : df.columns[j] = label
\* df[label], as the sequence of its cells
Column(df, label) == [i \in 1..Len(df.rows) |-> df.rows[i][ColumnIndex(df, label)]]

\* df.head()
FirstRows == 5
DfHead(df) ==
    Frame(df.columns,
          SubSeq(df.rows, 1, IF Len(df.rows) < FirstRows THEN Len(df.rows) ELSE FirstRows))

(***************************************************************************)
(* LocalLLM                                                                *)
(***************************************************************************)
\* self.column_aliases.get(col_type, [])
column_aliases(col_type) ==
    CASE col_type = "state" -> <<"state", "statename", "state_name">>
      [] col_type = "district" -> <<"district", "districtname", "district_name">>
      [] col_type = "year" -> <<"year", "year_code", "financial_year">>
      [] col_type = "crop" -> <<"crop", "crop_name", "commodity">>
      [] col_type = "production" ->
            <<"production", "production_volume_tonnes", "production_metric_tonnes",
              "value", "yield">>
      [] col_type = "rainfall" ->
            <<"rainfall", "avg_annual_rainfall_mm", "actual_rainfall", "rainfall_mm">>
      [] OTHER -> <<>>

RECURSIVE ScanColumns(_, _, _)
\* the inner loop of _find_col: the first column, from j on, that is the alias
ScanColumns(alias, columns, j) ==
    IF j > Len(columns) THEN Ok(None)
    ELSE IF columns[j].t # "str"
         THEN Raise("AttributeError", "'int' object has no attribute 'lower'")
    ELSE IF alias = Strip(Lower(columns[j].s)) THEN Ok(columns[j])
    ELSE ScanColumns(alias, columns, j + 1)

RECURSIVE ScanAliases(_, _, _)
\* the outer loop of _find_col: the first alias, from a on, that some column is
ScanAliases(aliases, columns, a) ==
    IF a > Len(aliases) THEN Ok(None)
    ELSE LET hit == ScanColumns(aliases[a], columns, 1)
         IN IF hit.kind = "raise" \/ hit.val # None THEN hit
            ELSE ScanAliases(aliases, columns, a + 1)

RECURSIVE ScanColumnsFirst(_, _, _)
\* A plausible slip: the loops nested the other way round, columns outermost.
ScanColumnsFirst(aliases, columns, j) ==
    IF j > Len(columns) THEN Ok(None)
    ELSE IF columns[j].t # "str"
         THEN Raise("AttributeError", "'int' object has no attribute 'lower'")
    ELSE IF \E a \in 1..Len(aliases) : aliases[a] = Strip(Lower(columns[j].s))
         THEN Ok(columns[j])
    ELSE ScanColumnsFirst(aliases, columns, j + 1)
_find_col_by_column(df, col_type) == ScanColumnsFirst(column_aliases(col_type), df.columns, 1)

\* LocalLLM._find_col
_find_col(df, col_type) == ScanAliases(column_aliases(col_type), df.columns, 1)

(***************************************************************************)
(* _clean_numeric: every character that is neither a digit nor a dot is    *)
(* dropped and the rest parsed; what does not parse is NaN.  A number is   *)
(* kept in hundredths (digits after the second decimal are cut).           *)
(***************************************************************************)
Digits == "0123456789"
IsDigit(c) == \E d \in 1..10 : SubSeq(Digits, d, d) = c
DigitVal(c) == (CHOOSE d \in 1..10 : SubSeq(Digits, d, d) = c) - 1

RECURSIVE KeepNumeric(_, _)
\* str.replace(r'[^\d.]', '', regex=True)
KeepNumeric(s, i) ==
    IF i > Len(s) THEN ""
    ELSE LET c == SubSeq(s, i, i)
         IN (IF IsDigit(c) \/ c = "." THEN c ELSE "") \o KeepNumeric(s, i + 1)

RECURSIVE DigitsValue(_, _)
DigitsValue(s, acc) ==
    IF s = "" THEN acc
    ELSE DigitsValue(SubSeq(s, 2, Len(s)), 10 * acc + DigitVal(SubSeq(s, 1, 1)))

Dots(s) == Cardinality({i \in 1..Len(s) : SubSeq(s, i, i) = "."})

\* pd.to_numeric(text, errors='coerce'), for a text of digits and dots
ToNumeric(s) ==
    IF s = "" \/ s = "." \/ Dots(s) > 1 THEN NaN
    ELSE IF Dots(s) = 0 THEN JNum(100 * DigitsValue(s, 0))
    ELSE LET d == CHOOSE i \in 1..Len(s) : SubSeq(s, i, i) = "."
             frac == SubSeq(SubSeq(s, d + 1, Len(s)) \o "00", 1, 2)
         IN JNum(100 * DigitsValue(SubSeq(s, 1, d - 1), 0) + DigitsValue(frac, 0))

\* astype(str) of one cell
AsTypeStr(cell) == IF cell.t = "str" THEN cell.s ELSE Repr(cell)

\* LocalLLM._clean_numeric, cell by cell
_clean_numeric(series) ==
    [i \in 1..Len(series) |-> ToNumeric(KeepNumeric(AsTypeStr(series[i]), 1))]

TwoDigits(n) == IF n < 10 THEN "0" \o ToString(n) ELSE ToString(n)
\* f"{x:.2f}" of a number kept in hundredths, or of NaN
Format2f(x) ==
    IF x.t = "nan" THEN "nan"
    ELSE ToString(x.n \div 100) \o "." \o TwoDigits(x.n % 100)

RECURSIVE SumCells(_, _)
SumCells(cells, i) ==
    IF i > Len(cells) THEN 0
    ELSE (IF cells[i].t = "num" THEN cells[i].n ELSE 0) + SumCells(cells, i + 1)

\* Series.mean(): NaN is skipped; the quotient is rounded to the nearest hundredth
Mean(cells) ==
    LET n == Cardinality({i \in 1..Len(cells) : cells[i].t = "num"})
        total == SumCells(cells, 1)
        q == total \div n
        r == total % n
    IN IF n = 0 THEN NaN
       ELSE JNum(IF 2 * r > n \/ (2 * r = n /\ q % 2 = 1) THEN q + 1 ELSE q)

(***************************************************************************)
(* Ordering of str, for groupby's sorted group keys.                       *)
(***************************************************************************)
Alphabet ==
    " ,-.0123456789ABCDEFGHIJKLMNOPQRSTUVWXYZ_abcdefghijklmnopqrstuvwxyz"
Ord(c) == CHOOSE k \in 1..Len(Alphabet) : SubSeq(Alphabet, k, k) = c

RECURSIVE StrLess(_, _)
StrLess(a, b) ==
    IF b = "" THEN FALSE
    ELSE IF a = "" THEN TRUE
    ELSE IF SubSeq(a, 1, 1) # SubSeq(b, 1, 1)
         THEN Ord(SubSeq(a, 1, 1)) < Ord(SubSeq(b, 1, 1))
    ELSE StrLess(SubSeq(a, 2, Len(a)), SubSeq(b, 2, Len(b)))

RECURSIVE SortedKeys(_)
SortedKeys(keys) ==
    IF keys = {} THEN <<>>
    ELSE LET least == CHOOSE k \in keys : \A other \in keys \ {k} : StrLess(k, other)
         IN <<least>> \o SortedKeys(keys \ {least})

(***************************************************************************)
(* The answer text is kept as its fragments, in order: the literal texts   *)
(* and the tables DataFrame.to_markdown renders.                           *)
(***************************************************************************)
Text(s) == [kind |-> "text", text |-> s]
Table(index, columns, rows) ==
    [kind |-> "table", index |-> index, columns |-> columns, rows |-> rows]

\* df.to_markdown(...): it needs the optional dependency tabulate
to_markdown(tab, table) ==
    IF tab THEN Ok(table)
    ELSE Raise("ImportError",
               "Missing optional dependency 'tabulate'.  Use pip or conda to install tabulate.")

\* the text is the empty string
IsEmptyText(response) ==
    \A i \in 1..Len(response) : response[i].kind = "text" /\ response[i].text = ""

Labels(columns) == [j \in 1..Len(columns) |-> columns[j].s]
StrColumns(df) == \A j \in 1..Len(df.columns) : df.columns[j].t = "str"

\* A plausible slip: the default pair is forgotten.
states_to_check_no_default(question_low) ==
    (IF Contains("telangana", question_low) THEN <<"Telangana">> ELSE <<>>)
    \o (IF Contains("karnataka", question_low) THEN <<"Karnataka">> ELSE <<>>)

\* _analyze_taxes: states_to_check
states_to_check(question_low) ==
    LET named == (IF Contains("telangana", question_low) THEN <<"Telangana">> ELSE <<>>)
                 \o (IF Contains("karnataka", question_low) THEN <<"Karnataka">> ELSE <<>>)
    IN IF named = <<>> THEN <<"Telangana", "Karnataka">> ELSE named

IsYearLabel(c) == Contains("2016", c) \/ Contains("2017", c) \/ Contains("2018", c)

\* A plausible slip: the rows are shown without the filter on the state.
filter_rows_all(df, state_col, states) == df.rows

\* _analyze_taxes: df[df[state_col].isin(states_to_check)]
filter_rows(df, state_col, states) ==
    LET j == ColumnIndex(df, JStr(state_col))
    IN SelectSeq(df.rows, LAMBDA row :
           row[j].t = "str" /\ \E k \in 1..Len(states) : states[k] = row[j].s)

\* A plausible slip: the message lists the states found in the data instead.
no_data_text_present(df, state_col, states) ==
    "I found the dataset, but could not find data for "
        \o Join(", ", SortedKeys({c.s : c \in
               {Column(df, JStr(state_col))[i] : i \in 1..Len(df.rows)}})) \o "."

\* _analyze_taxes: the answer when no row is left
no_data_text(df, state_col, states) ==
    "I found the dataset, but could not find data for " \o Join(", ", states) \o "."

\* _analyze_taxes: the answer with the table, for the rows left by the filter
taxes_table(states, shown) ==
    IF shown.kind = "raise"
    THEN [kind |-> "raise", exc |-> shown.exc, err |-> shown.err, states |-> states]
    ELSE [kind |-> "ok", states |-> states, val |->
            <<Text("**Share of Union Taxes and Duties (in Rs. Crore) for "
                   \o Join(", ", states) \o ":**\n\n"),
              shown.val>>]

\* _analyze_taxes: df_filtered[final_cols].set_index(state_col)
df_display(df, state_col, cols_to_check, filtered) ==
    Table([i \in 1..Len(filtered) |-> filtered[i][ColumnIndex(df, JStr(state_col))]],
          cols_to_check,
          [i \in 1..Len(filtered) |->
              [c \in 1..Len(cols_to_check) |->
                  filtered[i][ColumnIndex(df, cols_to_check[c])]]])

\* _analyze_taxes, from the filter on
taxes_filtered(df, state_col, cols_to_check, states, filtered, tab) ==
    IF filtered = <<>>
    THEN [kind |-> "ok", states |-> states,
          val |-> <<Text(no_data_text(df, state_col, states))>>]
    ELSE taxes_table(states,
                     to_markdown(tab, df_display(df, state_col, cols_to_check, filtered)))

\* _analyze_taxes, once cols_to_check and states_to_check are computed
taxes_for(df, state_col, cols_to_check, states, tab) ==
    IF ~HasColumn(df, JStr(state_col))
    THEN [kind |-> "ok", states |-> states, val |->
            <<Text("Could not find the required 'state_name' column in the dataset. Available columns: "
                   \o Join(", ", Labels(df.columns)))>>]
    ELSE taxes_filtered(df, state_col, cols_to_check, states,
                        filter_rows(df, state_col, states), tab)

\* LocalLLM._analyze_taxes; `states` records states_to_check once computed
_analyze_taxes(df, user_question, tab) ==
    IF ~StrColumns(df)
    THEN [kind |-> "raise", exc |-> "TypeError",
          err |-> "argument of type 'int' is not iterable", states |-> <<>>]
    ELSE taxes_for(df, "state_name",
                   SelectSeq(df.columns, LAMBDA c : IsYearLabel(c.s)),
                   states_to_check(Lower(user_question)), tab)

\* _analyze_comparison: the line of one group
rain_line(group, members) ==
    "* **" \o group \o "**: "
    \o Format2f(Mean([i \in 1..Len(members) |-> members[i][2]]))
    \o " mm (average)\n"

\* _analyze_comparison: one line per group of the state column, keys sorted
rain_lines(keys, rain, groups) ==
    [g \in 1..Len(groups) |->
        rain_line(groups[g],
                  SelectSeq([i \in 1..Len(keys) |-> <<keys[i], rain[i]>>],
                            LAMBDA p : p[1] = JStr(groups[g])))]

StrValues(cells) == {cells[i].s : i \in {k \in 1..Len(cells) : cells[k].t = "str"}}

\* _analyze_comparison, once both columns are looked up
comparison_of(df, rain_col, state_col) ==
    IF rain_col.kind = "raise" THEN rain_col
    ELSE IF state_col.kind = "raise" THEN state_col
    ELSE IF rain_col.val # None /\ state_col.val # None
    THEN Ok(<<Text("**Average Annual Rainfall Analysis:**\n"
                   \o Join("", rain_lines(Column(df, state_col.val),
                                          _clean_numeric(Column(df, rain_col.val)),
                                          SortedKeys(StrValues(Column(df, state_col.val))))))>>)
    ELSE Ok(<<Text("")>>)

\* LocalLLM._analyze_comparison
_analyze_comparison(df) ==
    comparison_of(df, _find_col(df, "rainfall"), _find_col(df, "state"))

\* _default_summary, once the table is rendered
summary_of(dataset_title, shown) ==
    IF shown.kind = "raise" THEN shown
    ELSE Ok(<<Text("I have successfully retrieved the dataset **'" \o dataset_title
                   \o "'**. Here is a summary of the first 5 rows:\n\n"),
              shown.val, Text("\n")>>)

\* LocalLLM._default_summary
_default_summary(df, dataset_title, tab) ==
    summary_of(dataset_title,
               to_markdown(tab, Table(None, df.columns, DfHead(df).rows)))

IsTaxQuestion(q) == Contains("tax", q) \/ Contains("duties", q)
IsComparisonQuestion(q) ==
    Contains("compare", q) /\ Contains("rainfall", q) /\ Contains("crop", q)

\* A plausible slip: the comparison is tested before the tax keywords.
select_routine_comparison_first(question_low) ==
    IF IsComparisonQuestion(question_low) THEN "comparison"
    ELSE IF IsTaxQuestion(question_low) THEN "taxes"
    ELSE "summary"

\* generate: the if / elif / else on question_low
select_routine(question_low) ==
    IF IsTaxQuestion(question_low) THEN "taxes"
    ELSE IF IsComparisonQuestion(question_low) THEN "comparison"
    ELSE "summary"

citation(dataset_title, resource_id) ==
    "**" \o dataset_title \o "** (Source: " \o resource_id \o ", data.gov.in)"

ErrorPrefix == "I encountered an error during data synthesis. Error: "

\* generate: the call of the selected routine
run_routine(routine, user_question, df, dataset_title, tab) ==
    CASE routine = "taxes" -> _analyze_taxes(df, user_question, tab)
      [] routine = "comparison" -> _analyze_comparison(df)
      [] OTHER -> _default_summary(df, dataset_title, tab)

Answer(routine, routed, response, cite) ==
    [kind |-> "ok", routine |-> routine, routed |-> routed,
     states |-> IF routine = "taxes" THEN routed.states ELSE <<>>,
     response |-> response, citations |-> cite]

\* generate: the except clause; a fault of its own leaves generate
recover(routine, routed, fallback, cite) ==
    IF fallback.kind = "ok"
    THEN Answer(routine, routed,
                <<Text(ErrorPrefix \o routed.err \o "\n\n")>> \o fallback.val, cite)
    ELSE [kind |-> "raise", routine |-> routine, routed |-> routed,
          states |-> IF routine = "taxes" THEN routed.states ELSE <<>>,
          exc |-> fallback.exc, err |-> fallback.err]

\* generate: the try / except around the routine, and the return
guard(routine, routed, df, dataset_title, resource_id, tab) ==
    IF routed.kind = "ok"
    THEN Answer(routine, routed, routed.val, <<citation(dataset_title, resource_id)>>)
    ELSE recover(routine, routed, _default_summary(df, dataset_title, tab),
                 <<citation(dataset_title, resource_id)>>)

\* generate, once the routine is selected
generate_with(routine, user_question, df, dataset_title, resource_id, tab) ==
    guard(routine, run_routine(routine, user_question, df, dataset_title, tab),
          df, dataset_title, resource_id, tab)

\* LocalLLM.generate.  kind is "ok" (response and citations are returned) or
\* "raise" (a fault leaves generate); routine, routed and states record what ran.
generate(user_question, df, dataset_title, resource_id, tab) ==
    generate_with(select_routine(Lower(user_question)), user_question, df,
                  dataset_title, resource_id, tab)

(***************************************************************************)
(* The resolver on its own: any frame of up to MaxCols columns, any field. *)
(***************************************************************************)
ColumnPool ==
    { JStr("State"), JStr(" state_name "), JStr("STATE_NAME"), JStr("statename"),
      JStr("Rainfall_mm"), JStr(" RAINFALL"), JStr("state name"), JStr("zone"),
      JNum(0) }

SemanticFields ==
    {"state", "district", "year", "crop", "production", "rainfall", "tax"}

ColumnLists == UNION { [1..n -> ColumnPool] : n \in 0..MaxCols }

Idle == [pc |-> "idle"]

InitResolver ==
    /\ tabulate = TRUE
    /\ messages = <<>>
    /\ run = Idle
    /\ prompts = 0
    /\ call = Idle
    /\ \E columns \in ColumnLists, col_type \in SemanticFields :
          res = [pc |-> "call", df |-> Frame(columns, <<>>), col_type |-> col_type]

Resolve ==
    /\ res.pc = "call"
    /\ res' = [pc |-> "done", df |-> res.df, col_type |-> res.col_type,
               given |-> res.df, out |-> _find_col(res.df, res.col_type)]
    /\ UNCHANGED <<tabulate, messages, run, prompts, call>>

NextResolver == Resolve

SpecResolver == InitResolver /\ [][NextResolver]_vars

(***************************************************************************)
(* generate on its own: questions built from keywords typed in mixed case, *)
(* datasets as pd.DataFrame builds them from up to MaxRows fetched records.*)
(***************************************************************************)
QuestionWords ==
    <<"Union TAXES", "customs Duties", "COMPARE", "Rainfall", "by Crop",
      "in Telangana", "KARNATAKA", "please">>

Picked(S) ==
    LET idx == SelectSeq([i \in 1..Len(QuestionWords) |-> i], LAMBDA i : i \in S)
    IN [k \in 1..Len(idx) |-> QuestionWords[idx[k]]]

\* every selection of at least one of the words, in order, joined by blanks
KeywordQuestions ==
    { Join(" ", Picked(S)) : S \in (SUBSET (1..Len(QuestionWords))) \ {{}} }

TypedQuestions ==
    { "Share of Union Taxes in Telangana",
      "customs DUTIES for Karnataka and Telangana",
      "Union taxes by state",
      "Compare rainfall by crop",
      "compare Tax and rainfall by crop",
      "show the data" }

TaxRecords ==
    { JObj(<< <<"state_name", JStr(s)>>, <<"2016-17", JNum(a)>>, <<"2017-18", JNum(5)>> >>) :
        s \in {"Telangana", "Karnataka", "Kerala"}, a \in {10, 20} }

RainRecords ==
    { JObj(<< <<" State ", JStr(s)>>, <<"Rainfall_mm", r>>, <<"crop", JStr("Rice")>> >>) :
        s \in {"Kerala", "Goa"}, r \in {JStr("1,200.5 mm"), JNum(300), JStr("n/a")} }

PlainRecords ==
    { JObj(<< <<"State", JStr(s)>>, <<"2016-17", JNum(7)>> >>) : s \in {"Kerala", "Goa"} }

ScalarRecords == { JNum(1), JStr("x") }

ListsOf(S, n) == UNION { [1..k -> S] : k \in 0..n }

RecordLists(n) ==
    ListsOf(TaxRecords, n) \cup ListsOf(RainRecords, n)
        \cup ListsOf(PlainRecords, n) \cup ListsOf(ScalarRecords, n)

Datasets(n) == { DataFrame(JList(items)).val : items \in RecordLists(n) }

SmallDatasets == Datasets(1)
AllDatasets == Datasets(MaxRows)

Call(q, df) ==
    [pc |-> "call", user_question |-> q, df |-> df,
     dataset_title |-> "Tax Devolution", resource_id |-> "res-1"]

InitGenerate ==
    /\ tabulate \in BOOLEAN
    /\ messages = <<>>
    /\ run = Idle
    /\ prompts = 0
    /\ res = Idle
    /\ \/ \E q \in KeywordQuestions, df \in SmallDatasets : call = Call(q, df)
       \/ \E q \in TypedQuestions, df \in AllDatasets : call = Call(q, df)

Generate ==
    /\ call.pc = "call"
    /\ call' = [call EXCEPT !.pc = "done"] @@
               [out |-> generate(call.user_question, call.df, call.dataset_title,
                                 call.resource_id, tabulate)]
    /\ UNCHANGED <<tabulate, messages, run, prompts, res>>

NextGenerate == Generate

SpecGenerate == InitGenerate /\ [][NextGenerate]_vars

(***************************************************************************)
(* The prompt handler: one run of the script for one submitted prompt.     *)
(* The fetch collaborator's answer is an input: the transport fails, the   *)
(* status is an error, the body is not JSON, or the body is a JSON value.  *)
(***************************************************************************)
\* requests.post(...); response.raise_for_status(); response.json()
fetch(outcome) ==
    CASE outcome.kind = "unreachable" ->
            Raise("ConnectionError", "Max retries exceeded with url: /webhook")
      [] outcome.kind = "http_error" ->
            Raise("HTTPError", "404 Client Error: Not Found for url: /webhook")
      [] outcome.kind = "not_json" ->
            \* requests.exceptions.JSONDecodeError since requests 2.27, a plain
            \* ValueError before: the installed version decides
            Raise(IF outcome.modern THEN "RequestsJSONDecodeError" ELSE "ValueError",
                  "Expecting value: line 1 column 1 (char 0)")
      [] OTHER -> Ok(outcome.data)

\* requests.exceptions.RequestException and its subclasses, HTTPError apart
RequestExceptions == {"ConnectionError", "Timeout", "RequestsJSONDecodeError"}

\* the elif "message" in data branch, once data['message'] is read
message_of(message) ==
    IF message.kind = "raise" THEN message
    ELSE [kind |-> "message", text |-> Str(message.val)]

\* the elif "message" in data / else branches
message_or_unknown(data) ==
    IF PyIn("message", data).kind = "raise" THEN PyIn("message", data)
    ELSE IF PyIn("message", data).val THEN message_of(PyIndex(data, "message"))
    ELSE [kind |-> "unknown"]

frame_of(data, inner, df) ==
    IF df.kind = "raise" THEN df
    ELSE [kind |-> "dataset", df |-> df.val,
          dataset_title |-> Str(GetOr(inner, "title", JStr("Untitled Dataset"))),
          resource_id |-> Str(GetOr(data, "resource_id", JStr("N/A")))]

records_of(data, inner, records) ==
    IF records.kind = "raise" THEN records
    ELSE frame_of(data, inner, DataFrame(records.val))

\* the if "data" in data and "records" in data["data"] branch
dataset_of(data, inner) == records_of(data, inner, PyIndex(inner, "records"))

has_records(data, inner, hasRecords) ==
    IF hasRecords.kind = "raise" THEN hasRecords
    ELSE IF hasRecords.val THEN dataset_of(data, inner)
    ELSE message_or_unknown(data)

has_data(data, inner) ==
    IF inner.kind = "raise" THEN inner
    ELSE has_records(data, inner.val, PyIn("records", inner.val))

\* the dispatch on the shape of the collaborator's response
response_shape(data) ==
    IF PyIn("data", data).kind = "raise" THEN PyIn("data", data)
    ELSE IF ~PyIn("data", data).val THEN message_or_unknown(data)
    ELSE has_data(data, PyIndex(data, "data"))

User(prompt) == [role |-> "user", content |-> <<Text(prompt)>>]
Assistant(text) == [role |-> "assistant", content |-> <<Text(text)>>]

\* A plausible slip: only the API key is required.
missing_credential_key_only(api_key_input, n8n_url) ==
    IF api_key_input = "" THEN "api_key" ELSE "none"

\* if not api_key_input / elif not n8n_url
missing_credential(api_key_input, n8n_url) ==
    IF api_key_input = "" THEN "api_key"
    ELSE IF n8n_url = "" THEN "n8n_url"
    ELSE "none"

Ran(msgs, errors, posted, generated, stopped) ==
    [messages |-> msgs, errors |-> errors, posted |-> posted,
     generated |-> generated, stopped |-> stopped]

\* the except clauses of the handler, for a fault raised in its try block
handle_exception(msgs, fault, posted, generated) ==
    IF fault.exc = "HTTPError"
    THEN Ran(msgs, <<"HTTP error connecting to n8n: " \o fault.err>>,
             posted, generated, FALSE)
    ELSE IF fault.exc \in RequestExceptions
    THEN Ran(msgs, <<"Failed to contact n8n workflow: " \o fault.err>>,
             posted, generated, FALSE)
    ELSE Ran(Append(msgs, Assistant("I'm sorry, I ran into an error: " \o fault.err)),
             <<"An unexpected error occurred: " \o fault.err>>,
             posted, generated, FALSE)

\* A plausible slip: st.stop() is caught by the handler's own except Exception,
\* which appends its apology after the turn already appended.
stop_caught(msgs, errors) ==
    Ran(Append(msgs, Assistant("I'm sorry, I ran into an error: ")),
        Append(errors, "An unexpected error occurred: "), TRUE, FALSE, FALSE)

\* st.stop(): the run ends there (StopException is no Exception)
stop(msgs, errors) == Ran(msgs, errors, TRUE, FALSE, TRUE)

\* the try block, from the return of generate on
answered(msgs, answer) ==
    IF answer.kind = "raise" THEN handle_exception(msgs, answer, TRUE, TRUE)
    ELSE Ran(Append(msgs, [role |-> "assistant", content |-> answer.response,
                           citations |-> answer.citations]),
             <<>>, TRUE, TRUE, FALSE)

\* the try block, from the dispatch on the response's shape on
dispatched(msgs, prompt, data, shape, tab) ==
    CASE shape.kind = "raise" -> handle_exception(msgs, shape, TRUE, FALSE)
      [] shape.kind = "message" ->
            stop(Append(msgs, Assistant("Error from n8n: " \o shape.text)),
                 <<"Error from n8n workflow: " \o shape.text>>)
      [] shape.kind = "unknown" ->
            stop(Append(msgs, Assistant("Unknown n8n response: " \o Str(data))),
                 <<"Received an unknown response structure from n8n: " \o Str(data)>>)
      [] OTHER ->
            answered(msgs, generate(prompt, shape.df, shape.dataset_title,
                                    shape.resource_id, tab))

\* the try block, from the collaborator's answer on
fetched(msgs, prompt, data, tab) ==
    IF data.kind = "raise" THEN handle_exception(msgs, data, TRUE, FALSE)
    ELSE dispatched(msgs, prompt, data.val, response_shape(data.val), tab)

\* the body of the try block, once the user's turn is appended
answer_prompt(msgs, prompt, outcome, tab) ==
    fetched(msgs, prompt, fetch(outcome), tab)

\* the handler of a submitted prompt
prompt_handler(msgs, prompt, api_key_input, n8n_url, outcome, tab) ==
    CASE missing_credential(api_key_input, n8n_url) = "api_key" ->
            Ran(msgs, <<"Please enter your data.gov.in API key above to start.">>,
                FALSE, FALSE, FALSE)
      [] missing_credential(api_key_input, n8n_url) = "n8n_url" ->
            Ran(msgs, <<"Please enter your n8n Webhook URL above to start.">>,
                FALSE, FALSE, FALSE)
      [] OTHER -> answer_prompt(Append(msgs, User(prompt)), prompt, outcome, tab)

(***************************************************************************)
(* A session: prompts submitted one after the other, each with the values  *)
(* of the two text inputs at that time and the collaborator's answer.      *)
(***************************************************************************)
Prompts == {"Share of Union Taxes in Telangana", "Compare rainfall by crop"}
ApiKeys == {"", "579b464db66ec23bdd000001"}
Urls == {"", "https://n8n.example/webhook/samarth"}

TaxDataset ==
    JList(<< JObj(<< <<"state_name", JStr("Telangana")>>, <<"2016-17", JNum(10)>>,
                     <<"2017-18", JNum(5)>> >>),
             JObj(<< <<"state_name", JStr("Kerala")>>, <<"2016-17", JNum(20)>>,
                     <<"2017-18", JNum(5)>> >>) >>)

Payloads ==
    { JObj(<< <<"data", JObj(<< <<"records", TaxDataset>>,
                               <<"title", JStr("Tax Devolution")>> >>)>>,
              <<"resource_id", JStr("res-1")>> >>),
      JObj(<< <<"data", JObj(<< <<"records", JList(<<JNum(1)>>)>> >>)>> >>),
      JObj(<< <<"data", JObj(<< <<"records", JStr("none")>> >>)>> >>),
      JObj(<< <<"data", JObj(<< <<"title", JStr("Tax Devolution")>> >>)>> >>),
      JObj(<< <<"data", JNum(5)>> >>),
      JObj(<< <<"message", JStr("Workflow was started")>> >>),
      JObj(<< <<"error", JStr("denied")>>, <<"message", JStr("Invalid API key")>> >>),
      JObj(<< <<"foo", JStr("bar")>> >>),
      JList(<<JStr("message")>>),
      JNull }

Outcomes ==
    { [kind |-> "unreachable"], [kind |-> "http_error"],
      [kind |-> "not_json", modern |-> TRUE], [kind |-> "not_json", modern |-> FALSE] }
    \cup { [kind |-> "json", data |-> d] : d \in Payloads }

Init ==
    /\ tabulate \in BOOLEAN
    /\ messages = <<>>
    /\ run = Idle
    /\ prompts = 0
    /\ call = Idle
    /\ res = Idle

Record(prompt, api_key_input, n8n_url, outcome, ran) ==
    [pc |-> "ran", prompt |-> prompt, api_key_input |-> api_key_input,
     n8n_url |-> n8n_url, outcome |-> outcome, errors |-> ran.errors,
     posted |-> ran.posted, generated |-> ran.generated, stopped |-> ran.stopped]

Took(prompt, api_key_input, n8n_url, outcome, ran) ==
    /\ messages' = ran.messages
    /\ run' = Record(prompt, api_key_input, n8n_url, outcome, ran)

Submit(prompt, api_key_input, n8n_url, outcome) ==
    /\ prompts < MaxPrompts
    /\ Took(prompt, api_key_input, n8n_url, outcome,
            prompt_handler(messages, prompt, api_key_input, n8n_url, outcome, tabulate))
    /\ prompts' = prompts + 1
    /\ UNCHANGED <<tabulate, call, res>>

\* with a credential missing the collaborator is not asked, and has no answer to give
NoAnswer == [kind |-> "unreachable"]

Next ==
    \E prompt \in Prompts, api_key_input \in ApiKeys, n8n_url \in Urls :
        IF api_key_input = "" \/ n8n_url = ""
        THEN Submit(prompt, api_key_input, n8n_url, NoAnswer)
        ELSE \E outcome \in Outcomes : Submit(prompt, api_key_input, n8n_url, outcome)

Spec == Init /\ [][Next]_vars

(***************************************************************************)
(* Properties of _find_col.                                                *)
(***************************************************************************)
Normalised(label) == Strip(Lower(label.s))

Mentions(keyword, question) ==
    \E i \in 1..(Len(question) - Len(keyword) + 1) :
        Lower(SubSeq(question, i, i + Len(keyword) - 1)) = keyword

MentionsTax(q) == Mentions("tax", q) \/ Mentions("duties", q)
MentionsComparison(q) ==
    Mentions("compare", q) /\ Mentions("rainfall", q) /\ Mentions("crop", q)

\* C1: generate runs exactly one routine, chosen from the question alone and
\* whatever the case of its letters: tax analysis when it holds "tax" or
\* "duties" (even with "compare", "rainfall" and "crop"), else the rainfall-crop
\* comparison when it holds all of "compare", "rainfall" and "crop", else the
\* generic summary.
RouterPriority ==
    call.pc = "done" =>
        LET q == call.user_question
        IN call.out.routine =
              (IF MentionsTax(q) THEN "taxes"
               ELSE IF MentionsComparison(q) THEN "comparison"
               ELSE "summary")

\* C1 witness: a question in mixed case with a tax keyword and all three
\* comparison keywords went to the tax analysis.
RouterTaxBeatsComparison ==
    /\ call.pc = "done"
    /\ call.user_question = "Union TAXES COMPARE Rainfall by Crop"
    /\ call.out.routine = "taxes"

\* C2: a fault raised by the selected routine does not leave generate: the
\* answer holds the fault's message, then the generic summary of the same
\* dataset, and comes with the citation.
GuardContainsFault ==
    (call.pc = "done" /\ call.out.routed.kind = "raise") =>
        /\ call.out.kind = "ok"
        /\ Len(call.out.response) = 4
        /\ call.out.response[1].kind = "text"
        /\ Contains(call.out.routed.err, call.out.response[1].text)
        /\ call.out.response[3] =
              Table(None, call.df.columns, SubSeq(call.df.rows, 1, Len(call.df.rows)))
        /\ call.out.citations = <<"**Tax Devolution** (Source: res-1, data.gov.in)">>

\* C3: the answer text generate returns is never the empty text (stated where
\* to_markdown works, so that every call returns an answer).
AnswerNonEmpty ==
    (call.pc = "done" /\ tabulate /\ call.out.kind = "ok") =>
        ~IsEmptyText(call.out.response)

\* C9: the states the tax analysis filters on are never none: they are the
\* recognised names the question holds (whatever the case), Telangana before
\* Karnataka, and both when it holds neither.
StatesToCheckNeverEmpty ==
    (call.pc = "done" /\ call.out.routine = "taxes" /\ StrColumns(call.df)) =>
        LET q == call.user_question
            t == Mentions("telangana", q)
            k == Mentions("karnataka", q)
        IN /\ call.out.states # <<>>
           /\ call.out.states =
                 (IF t /\ k THEN <<"Telangana", "Karnataka">>
                  ELSE IF t THEN <<"Telangana">>
                  ELSE IF k THEN <<"Karnataka">>
                  ELSE <<"Telangana", "Karnataka">>)

\* C9 witness: a tax question naming no state was filtered on the default pair.
StatesDefaultPairUsed ==
    /\ call.pc = "done"
    /\ call.user_question = "Union taxes by state"
    /\ call.out.states = <<"Telangana", "Karnataka">>

StateCells(df) == Column(df, JStr("state_name"))
PresentStates(df) ==
    {StateCells(df)[i].s : i \in {k \in 1..Len(df.rows) : StateCells(df)[k].t = "str"}}
Requested(i) == \E k \in 1..Len(call.out.states) :
                    StateCells(call.df)[i] = JStr(call.out.states[k])

\* the tax analysis ran on a dataset with the state_name column and no row of a
\* requested state
TaxNoMatchingRow ==
    /\ call.pc = "done"
    /\ call.out.routine = "taxes"
    /\ StrColumns(call.df)
    /\ HasColumn(call.df, JStr("state_name"))
    /\ \A i \in 1..Len(call.df.rows) : ~Requested(i)

NoTable(response) == \A f \in 1..Len(response) : response[f].kind # "table"
InText(s, response) ==
    \E f \in 1..Len(response) : response[f].kind = "text" /\ Contains(s, response[f].text)

YearColumns(df) == SelectSeq(df.columns, LAMBDA c : IsYearLabel(c.s))
NumericColumn(df, c) == \A i \in 1..Len(df.rows) : Column(df, c)[i].t = "num"

\* the tax analysis ran for Telangana and Karnataka on a dataset with rows of
\* both and numeric year columns, and returned its answer
TaxBothStates ==
    /\ call.pc = "done"
    /\ call.out.routine = "taxes"
    /\ call.out.kind = "ok"
    /\ call.out.routed.kind = "ok"
    /\ StrColumns(call.df)
    /\ HasColumn(call.df, JStr("state_name"))
    /\ call.out.states = <<"Telangana", "Karnataka">>
    /\ {"Telangana", "Karnataka"} \subseteq PresentStates(call.df)
    /\ YearColumns(call.df) # <<>>
    /\ \A c \in 1..Len(YearColumns(call.df)) : NumericColumn(call.df, YearColumns(call.df)[c])

TheTable == call.out.response[2]

RECURSIVE RowSum(_, _)
RowSum(cells, i) == IF i > Len(cells) THEN 0 ELSE cells[i].n + RowSum(cells, i + 1)

\* the table's rows are rows of the dataset, each of a requested state
OnlyRequestedRows ==
    /\ TheTable.kind = "table"
    /\ Len(TheTable.rows) =
          Cardinality({i \in 1..Len(call.df.rows) : Requested(i)})
    /\ \A r \in 1..Len(TheTable.rows) :
          /\ TheTable.index[r].t = "str"
          /\ TheTable.index[r].s \in {"Telangana", "Karnataka"}

CredentialsPresent == run.api_key_input # "" /\ run.n8n_url # ""

HasRecordsShape(d) ==
    /\ d.t = "obj"
    /\ HasKey(d, "data")
    /\ Get(d, "data").t = "obj"
    /\ HasKey(Get(d, "data"), "records")
HasMessageShape(d) == d.t = "obj" /\ HasKey(d, "message")

\* C4: with both credentials present and a response (a JSON object) that has
\* neither data.records nor a message field, the handler reports an
\* unknown-response error showing the raw payload, runs no analysis, and the
\* transcript holds the user's turn for the prompt.
UnknownShapeReported ==
    (/\ run.pc = "ran"
     /\ CredentialsPresent
     /\ run.outcome.kind = "json"
     /\ run.outcome.data.t = "obj"
     /\ ~HasRecordsShape(run.outcome.data)
     /\ ~HasMessageShape(run.outcome.data)) =>
        /\ \E e \in 1..Len(run.errors) :
              /\ Contains("unknown response", run.errors[e])
              /\ Contains(Str(run.outcome.data), run.errors[e])
        /\ ~run.generated
        /\ \E i \in 1..Len(messages) : messages[i] = User(run.prompt)

\* C5: a prompt submitted while the API key or the endpoint URL is empty gets
\* the missing credential reported (the key first), and the fetch collaborator
\* is not called for it.
CredentialsCheckedFirst ==
    (run.pc = "ran" /\ ~CredentialsPresent) =>
        /\ ~run.posted
        /\ ~run.generated
        /\ Len(run.errors) = 1
        /\ run.api_key_input = "" => Contains("API key", run.errors[1])
        /\ run.api_key_input # "" => Contains("Webhook URL", run.errors[1])

\* C5 witness: the key was given, the URL was not, and nothing was posted.
MissingUrlReported ==
    /\ run.pc = "ran"
    /\ run.api_key_input # ""
    /\ run.n8n_url = ""
    /\ ~run.posted
    /\ run.errors = <<"Please enter your n8n Webhook URL above to start.">>

Roles(msgs) == [i \in 1..Len(msgs) |-> msgs[i].role]

\* C10: in the transcript every assistant turn comes right after a user turn;
\* a prompt appends nothing, or its user turn, or its user turn and then one
\* assistant turn.
TranscriptTurnsPaired ==
    /\ [](\A i \in 1..Len(messages) :
             messages[i].role = "assistant" =>
                 i > 1 /\ messages[i - 1].role = "user")
    /\ [][\/ messages' = messages
          \/ messages' = Append(messages, User(run'.prompt))
          \/ /\ Len(messages') = Len(messages) + 2
             /\ SubSeq(messages', 1, Len(messages) + 1) =
                   Append(messages, User(run'.prompt))
             /\ messages'[Len(messages')].role = "assistant"]_vars

\* C10 witness: after a prompt that got no assistant turn (the transport
\* failed) came a prompt that got one.
TranscriptUserUserAssistant ==
    /\ Len(messages) = 3
    /\ Roles(messages) = <<"user", "user", "assistant">>

====
